---- MODULE Spec2Model ----
(***************************************************************************)
(* A model of ffCropper.py: the timestamp parser, the output path          *)
(* resolver, the processing engine (process_video), the batch runner       *)
(* (process_batch) and the entry point (main).                             *)
(*                                                                         *)
(* Strings that the program inspects character by character are modelled   *)
(* as sequences of one-character strings (timestamps, JSON strings) or of  *)
(* path tokens (paths); a character outside ASCII is written by its code   *)
(* point ("U+0665").  What the operating system decides (does a process    *)
(* start, what does it exit with, what time is it) is a nondeterministic   *)
(* choice; the file system is the sets files and dirs.                     *)
(***************************************************************************)
EXTENDS Integers, Sequences, FiniteSets, TLC

VARIABLES
    timestamp,      \* parse_timestamp called alone: its argument
    total_seconds,  \* parse_timestamp called alone: its outcome, [exc, val]
    fo_args,        \* format_output_filename called alone: [output, source]
    fo_result,      \* format_output_filename called alone: the path returned
    upc,            \* the stand-alone calls: "idle", "call" or "ret"
    args,           \* argparse's namespace
    config_file,    \* the file args.config names: [exists, json_ok, data]
    HAVE_FFMPEG_PYTHON, \* whether "import ffmpeg" succeeded
    tool,           \* command name -> what "<command> -version" does
    files,          \* the files that exist
    dirs,           \* the directories that exist
    clock,          \* the reading of the clock, an index of Stamps
    pc,             \* the statement the program is at
    ffmpeg_cmd,     \* main's local
    system_ffmpeg,  \* main's local
    success,        \* main's local: what process_batch / process_video gave
    exit_status,    \* what main returned, -1 while it runs
    configs,        \* process_batch's normalized job list
    idx,            \* process_batch's loop index i, from 1
    success_count,  \* process_batch's counter
    pv,             \* process_video's arguments and locals
    pv_result,      \* how the last process_video call ended: [exc, msg, val]
    trace           \* what the run has done so far, in order

parse_vars == <<timestamp, total_seconds>>
fo_vars == <<fo_args, fo_result>>
env_vars == <<args, config_file, HAVE_FFMPEG_PYTHON, tool>>
fs_vars == <<files, dirs, clock>>
main_vars == <<ffmpeg_cmd, system_ffmpeg, success, exit_status>>
batch_vars == <<configs, idx, success_count>>
vars == <<parse_vars, fo_vars, upc, env_vars, fs_vars, pc, main_vars,
          batch_vars, pv, pv_result, trace>>

(***************************************************************************)
(* Timestamp Parser (parse_timestamp, lines 16-29)                         *)
(***************************************************************************)

\* The value int() gives each decimal digit: the ten ASCII digits and the
\* decimal digits of other scripts, of which "U+0665" (ARABIC-INDIC DIGIT
\* FIVE) stands for all.
DigitVal ==
    [c \in {"0", "1", "2", "3", "4", "5", "6", "7", "8", "9", "U+0665"} |->
        CASE c = "0" -> 0 [] c = "1" -> 1 [] c = "2" -> 2 [] c = "3" -> 3
          [] c = "4" -> 4 [] c = "5" -> 5 [] c = "6" -> 6 [] c = "7" -> 7
          [] c = "8" -> 8 [] c = "9" -> 9 [] c = "U+0665" -> 5]

\* The characters str.isdigit() accepts that are no decimal digits, of which
\* "U+00B2" (SUPERSCRIPT TWO) stands for all: int() refuses them.
OtherDigits == {"U+00B2"}

\* str.isdigit(): a non-empty string all of whose characters are digits.
isdigit(s) ==
    Len(s) > 0
    /\ \A i \in 1..Len(s) : s[i] \in DOMAIN DigitVal \cup OtherDigits

\* Whether int(s[i:i+2]) returns, for a slice isdigit() let through; else
\* it raises ValueError.
int2_ok(s, i) == s[i] \in DOMAIN DigitVal /\ s[i + 1] \in DOMAIN DigitVal

\* int(s[i:i+2]) of a two-character slice of decimal digits.
int2(s, i) == DigitVal[s[i]] * 10 + DigitVal[s[i + 1]]

\* An outcome of a call: the exception it raised ("none" when it returned)
\* and the value it returned (-1 when it raised and returned no value).
Raise(kind) == [exc |-> kind, val |-> -1]

Return(v) == [exc |-> "none", val |-> v]

\* Line 25
out_of_range(hours, minutes, seconds) ==
    hours > 23 \/ minutes > 59 \/ seconds > 59

parse_timestamp(ts) ==
    IF ~isdigit(ts) \/ Len(ts) # 6
    THEN Raise("ValueError")
    ELSE IF ~int2_ok(ts, 1) \/ ~int2_ok(ts, 3) \/ ~int2_ok(ts, 5)
    THEN Raise("ValueError")
    ELSE LET hours == int2(ts, 1)
             minutes == int2(ts, 3)
             seconds == int2(ts, 5)
         IN IF out_of_range(hours, minutes, seconds)
            THEN Raise("ValueError")
            ELSE Return(hours * 3600 + minutes * 60 + seconds)

(***************************************************************************)
(* Paths.  A path is a sequence of tokens: "/" is the separator, "\\" a    *)
(* backslash, "." a dot, "[timestamp]" the placeholder, a token that       *)
(* starts with a dot and goes on (".mp4") an extension, and any other      *)
(* token a piece of a name without dots or separators.  The text of a      *)
(* path is its tokens put together.  The host is POSIX: os.sep is "/".     *)
(***************************************************************************)

SEP == "/"

\* str.split('/'): the components between separators, empty ones included.
split(p) ==
    LET RECURSIVE go(_, _, _)
        go(i, cur, acc) ==
            IF i > Len(p) THEN Append(acc, cur)
            ELSE IF p[i] = SEP THEN go(i + 1, <<>>, Append(acc, cur))
            ELSE go(i + 1, Append(cur, p[i]), acc)
    IN go(1, <<>>, <<>>)

\* '/'.join(comps)
joincomps(comps) ==
    LET RECURSIVE go(_)
        go(i) ==
            IF i > Len(comps) THEN <<>>
            ELSE IF i = Len(comps) THEN comps[i]
            ELSE comps[i] \o <<SEP>> \o go(i + 1)
    IN go(1)

startswith(p, q) == Len(p) >= Len(q) /\ SubSeq(p, 1, Len(q)) = q

endswith(p, tok) == Len(p) > 0 /\ p[Len(p)] = tok

\* posixpath.normpath
normpath(path) ==
    IF path = <<>> THEN <<".">>
    ELSE
    LET initial_slashes ==
            IF ~startswith(path, <<SEP>>) THEN 0
            ELSE IF startswith(path, <<SEP, SEP>>)
                    /\ ~startswith(path, <<SEP, SEP, SEP>>) THEN 2
            ELSE 1
        comps == split(path)
        RECURSIVE fold(_, _)
        fold(i, new_comps) ==
            IF i > Len(comps) THEN new_comps
            ELSE LET comp == comps[i] IN
                 IF comp = <<>> \/ comp = <<".">> THEN fold(i + 1, new_comps)
                 ELSE IF comp # <<".", ".">>
                         \/ (initial_slashes = 0 /\ new_comps = <<>>)
                         \/ (new_comps # <<>>
                             /\ new_comps[Len(new_comps)] = <<".", ".">>)
                      THEN fold(i + 1, Append(new_comps, comp))
                 ELSE IF new_comps # <<>>
                      THEN fold(i + 1, SubSeq(new_comps, 1, Len(new_comps) - 1))
                 ELSE fold(i + 1, new_comps)
        joined == joincomps(fold(1, <<>>))
        result == [i \in 1..initial_slashes |-> SEP] \o joined
    IN IF result = <<>> THEN <<".">> ELSE result

\* Index of the last separator of p, 0 when there is none (str.rfind + 1).
rfindsep(p) ==
    LET hits == {i \in 1..Len(p) : p[i] = SEP}
    IN IF hits = {} THEN 0 ELSE CHOOSE i \in hits : \A j \in hits : j <= i

\* posixpath.basename
basename(p) == SubSeq(p, rfindsep(p) + 1, Len(p))

\* posixpath.dirname
dirname(p) ==
    LET head == SubSeq(p, 1, rfindsep(p))
        RECURSIVE rstrip(_)
        rstrip(h) ==
            IF h # <<>> /\ h[Len(h)] = SEP
            THEN rstrip(SubSeq(h, 1, Len(h) - 1)) ELSE h
    IN IF head # <<>> /\ (\E i \in 1..Len(head) : head[i] # SEP)
       THEN rstrip(head) ELSE head

\* The tokens that start with a dot.
DotTokens == {".", ".mp4"}

\* posixpath.splitext of a basename: <<root, ext>>.  The extension starts at
\* the last dot, provided a character other than a dot comes before it.
splitext(name) ==
    LET dots == {i \in 1..Len(name) : name[i] \in DotTokens}
        k == IF dots = {} THEN 0
             ELSE CHOOSE i \in dots : \A j \in dots : j <= i
    IN IF k > 0 /\ (\E j \in 1..(k - 1) : name[j] # ".")
       THEN <<SubSeq(name, 1, k - 1), SubSeq(name, k, Len(name))>>
       ELSE <<name, <<>>>>

\* posixpath.join(a, b)
pathjoin(a, b) ==
    IF startswith(b, <<SEP>>) THEN b
    ELSE IF a = <<>> \/ endswith(a, SEP) THEN a \o b
    ELSE a \o <<SEP>> \o b

\* str.replace('[timestamp]', now)
replace(p, old, new) == [i \in 1..Len(p) |-> IF p[i] = old THEN new ELSE p[i]]

\* The texts datetime.now().strftime('%Y%m%d_%H%M%S%f')[:19] gives at
\* successive readings of the clock: digits and one underscore, a single
\* name token each.
Stamps == <<"20240101_1200001234", "20240101_1200001235">>

\* What the clock can read when it last read c: it does not go back.
now(c) == {d \in DOMAIN Stamps : d >= c}

PLACEHOLDER == "[timestamp]"

\* The component that names the directory above.
DOTDOT == <<".", ".">>

\* Directories are known by their normalized names: "/" the root, "." the
\* working directory, ".." and "../.." the directories above it.  These
\* exist whatever dirs holds.
always_dir(d) ==
    d = <<SEP>> \/ d = <<".">>
    \/ LET comps == split(d) IN \A n \in 1..Len(comps) : comps[n] = DOTDOT

\* The directory above the directory d.
parent(d) ==
    IF d = <<SEP>> THEN d
    ELSE IF d = <<".">> THEN DOTDOT
    ELSE IF always_dir(d) THEN d \o <<SEP>> \o DOTDOT
    ELSE IF rfindsep(d) = 0 THEN <<".">>
    ELSE IF rfindsep(d) = 1 THEN <<SEP>>
    ELSE SubSeq(d, 1, rfindsep(d) - 1)

\* The entry name of the directory d.
child(d, name) ==
    IF d = <<SEP>> THEN <<SEP>> \o name
    ELSE IF d = <<".">> THEN name
    ELSE d \o <<SEP>> \o name

\* The name the components comps lead to, from the root or from the working
\* directory, whether or not anything is there.
canonical(absolute, comps) ==
    LET RECURSIVE walk(_, _)
        walk(i, cur) ==
            IF i > Len(comps) THEN cur
            ELSE IF comps[i] = <<>> \/ comps[i] = <<".">> THEN walk(i + 1, cur)
            ELSE IF comps[i] = DOTDOT THEN walk(i + 1, parent(cur))
            ELSE walk(i + 1, child(cur, comps[i]))
    IN walk(1, IF absolute THEN <<SEP>> ELSE <<".">>)

isabs(p) == startswith(p, <<SEP>>)

\* The path lookup of stat(): the name of what p leads to, <<>> when the
\* path is empty, a component does not exist (ENOENT) or a component that
\* is gone through is no directory (ENOTDIR).  Every component is looked up
\* in turn, also one that a later ".." leaves again.
lookup(p, ds, fs) ==
    LET comps == split(p)
        RECURSIVE walk(_, _)
        walk(i, cur) ==
            IF i > Len(comps) THEN cur
            ELSE IF ~(cur \in ds \/ always_dir(cur)) THEN <<>>
            ELSE IF comps[i] = <<>> \/ comps[i] = <<".">> THEN walk(i + 1, cur)
            ELSE IF comps[i] = DOTDOT THEN walk(i + 1, parent(cur))
            ELSE LET next == child(cur, comps[i])
                 IN IF next \in ds \cup fs THEN walk(i + 1, next) ELSE <<>>
    IN IF p = <<>> THEN <<>>
       ELSE walk(1, IF isabs(p) THEN <<SEP>> ELSE <<".">>)

\* os.path.isdir / os.path.exists, on the directories and files that exist.
isdir(p, ds, fs) ==
    LET d == lookup(p, ds, fs) IN d # <<>> /\ (d \in ds \/ always_dir(d))

exists(p, ds, fs) == lookup(p, ds, fs) # <<>>

\* Line 36
has_placeholder(p) == \E i \in 1..Len(p) : p[i] = PLACEHOLDER

\* Lines 34-39: the pattern normalized, the placeholder replaced by the
\* clock's reading at line 38.
fo_substituted(output, now38) ==
    LET output_path == normpath(output)
    IN IF has_placeholder(output_path)
       THEN replace(output_path, PLACEHOLDER, now38) ELSE output_path

\* Line 42
is_dir_target(output_path, ds, fs) ==
    isdir(output_path, ds, fs) \/ endswith(output_path, SEP)
    \/ (endswith(output_path, "/") \/ endswith(output_path, "\\"))

\* The readings <<line 38, line 47>> of the clock a call makes when the
\* clock last read c; a line that is not reached reads nothing.
fo_clock(output, ds, fs, c) ==
    {r \in now(c) \X now(c) :
        /\ r[1] <= r[2]
        /\ ~has_placeholder(normpath(output)) => r[1] = c
        /\ ~is_dir_target(fo_substituted(output, Stamps[r[1]]), ds, fs)
              => r[2] = r[1]}

format_output_filename(output, source_path, ds, fs, now38, now47) ==
    LET op2 == fo_substituted(output, now38)
        op3 == IF is_dir_target(op2, ds, fs)
               THEN LET source_basename == basename(source_path)
                        se == splitext(source_basename)
                    IN pathjoin(op2, se[1] \o <<"-", now47>> \o se[2])
               ELSE op2
    IN normpath(op3)

(***************************************************************************)
(* JSON values.  A value is [t, s, e]: its type t ("dict", "list", "str",  *)
(* "num"), the text s of a string, and the entries e of a dict or list in  *)
(* document order, each [k, v] (k is "" in a list).  The text of a string  *)
(* that is a field of a job is a timestamp or a path; the text of any      *)
(* other string is a sequence of characters.                               *)
(***************************************************************************)

REQUIRED == <<"source", "in", "out", "output">>

\* The characters of the four names.
KeyChars(key) ==
    CASE key = "source" -> <<"s", "o", "u", "r", "c", "e">>
      [] key = "in" -> <<"i", "n">>
      [] key = "out" -> <<"o", "u", "t">>
      [] key = "output" -> <<"o", "u", "t", "p", "u", "t">>

\* sub in text, of two strings
substring(sub, text) ==
    \E i \in 0..(Len(text) - Len(sub)) : SubSeq(text, i + 1, i + Len(sub)) = sub

\* key in config: a key of a dict, an element of a list, a substring of a
\* string.  (For a number it raises TypeError, see batch_loop.)
haskey(v, key) ==
    CASE v.t = "dict" -> \E n \in 1..Len(v.e) : v.e[n].k = key
      [] v.t = "list" ->
            \E n \in 1..Len(v.e) :
                v.e[n].v = [t |-> "str", s |-> KeyChars(key), e |-> <<>>]
      [] v.t = "str" -> substring(KeyChars(key), v.s)
      [] OTHER -> FALSE

\* config[key], for a dict that has the key
getitem(v, key) == v.e[CHOOSE n \in 1..Len(v.e) : v.e[n].k = key].v

\* all(key in value for key in ['source', 'in', 'out', 'output'])
all_required(v) == \A n \in 1..Len(REQUIRED) : haskey(v, REQUIRED[n])

\* A variant of missing_keys that lists the fields the job has.
missing_keys_present(v) ==
    LET present(key) == haskey(v, key)
    IN SelectSeq(REQUIRED, present)

\* [key for key in [...] if key not in config]
missing_keys(v) ==
    LET absent(key) == ~haskey(v, key)
    IN SelectSeq(REQUIRED, absent)

\* A variant of normalize that takes every value of a map as a job.
normalize_unfiltered(config_data) ==
    IF config_data.t = "list" \/ (config_data.t = "dict"
                                   /\ ~all_required(config_data))
    THEN [n \in 1..Len(config_data.e) |-> config_data.e[n].v]
    ELSE IF config_data.t = "dict" THEN <<config_data>>
    ELSE <<>>

\* Lines 181-193: the job list of a configuration document.
normalize(config_data) ==
    IF config_data.t = "list"
    THEN [n \in 1..Len(config_data.e) |-> config_data.e[n].v]
    ELSE IF config_data.t = "dict"
    THEN IF all_required(config_data)
         THEN <<config_data>>
         ELSE LET values == [n \in 1..Len(config_data.e) |-> config_data.e[n].v]
                  shaped(value) == value.t = "dict" /\ all_required(value)
              IN SelectSeq(values, shaped)
    ELSE <<>>

(***************************************************************************)
(* What the run does is recorded in trace, one event per effect.           *)
(***************************************************************************)

\* An event: what happened (ev), in which process_video call or batch job
\* (job, 0 for main itself), with which command, seek offset, duration and
\* path, how it ended (res), and the field names a message lists (keys).
Ev(ev, job, cmd, ss, t, out, res) ==
    [ev |-> ev, job |-> job, cmd |-> cmd, ss |-> ss, t |-> t, out |-> out,
     res |-> res, keys |-> <<>>]

Note(ev, job, keys) ==
    [ev |-> ev, job |-> job, cmd |-> "", ss |-> 0, t |-> 0, out |-> <<>>,
     res |-> "", keys |-> keys]

\* What running "<cmd> -version" does, from the state of the tool.
version_result(cmd) == tool[cmd]

pvRaise(exc, msg) == [exc |-> exc, msg |-> msg, val |-> FALSE]

pvReturn(b) == [exc |-> "none", msg |-> "", val |-> b]

\* os.makedirs(d) of a normalized path: d and every directory above it
\* exist afterwards.
makedirs(d, ds) ==
    LET comps == split(d)
    IN ds \cup {canonical(isabs(d), SubSeq(comps, 1, k)) : k \in 1..Len(comps)}

\* os.makedirs(d) cannot succeed when a file is in the way.
makedirs_outcomes(d, fs) ==
    IF makedirs(d, {}) \cap fs = {} THEN {"ok", "oserror"} ELSE {"oserror"}

\* The file the tool writes when it succeeds.
written(output_path) == canonical(isabs(output_path), split(output_path))

\* The tool can write output_path: its directory is there and the path is
\* no directory.
writable(output_path, ds, fs) ==
    /\ dirname(output_path) = <<>> \/ isdir(dirname(output_path), ds, fs)
    /\ ~isdir(output_path, ds, fs)

(***************************************************************************)
(* Processing Engine (process_video, lines 58-172)                         *)
(***************************************************************************)

\* A variant of invalid_range that accepts equal timestamps.
invalid_range_negative(duration) == duration < 0

\* Line 76
invalid_range(duration) == duration <= 0

\* Lines 60-77: the checks, in the order the code makes them.
validate(source, in_timestamp, out_timestamp, ds, fs) ==
    LET pin == parse_timestamp(in_timestamp)
        pout == parse_timestamp(out_timestamp)
        duration == pout.val - pin.val
        bad(exc, msg) == [exc |-> exc, msg |-> msg, in_seconds |-> 0,
                          duration |-> 0]
    IN IF ~exists(source, ds, fs)
       THEN bad("FileNotFoundError", "Source file not found")
       ELSE IF pin.exc # "none"
       THEN bad("ValueError", "Invalid IN timestamp")
       ELSE IF pout.exc # "none"
       THEN bad("ValueError", "Invalid OUT timestamp")
       ELSE IF invalid_range(duration)
       THEN bad("ValueError", "OUT timestamp must be greater than IN timestamp")
       ELSE [exc |-> "none", msg |-> "", in_seconds |-> pin.val,
             duration |-> duration]

\* The frame of a call process_video(source, in, out, output) for job n.
pv_call(n, source, in_timestamp, out_timestamp, output) ==
    [job |-> n, source |-> source, in_timestamp |-> in_timestamp,
     out_timestamp |-> out_timestamp, output |-> output,
     in_seconds |-> 0, duration |-> 0, output_path |-> <<>>,
     ffmpeg_available |-> FALSE]

\* No call of process_video has ended yet, or one is running.
NoResult == [exc |-> "pending", msg |-> "", val |-> FALSE]

\* The call ends with r, after the events of tr.
pv_end(r, tr) ==
    /\ pv_result' = r
    /\ pc' = "pv_done"
    /\ trace' = Append(tr, Ev("end", pv.job, "", 0, 0, <<>>,
                              IF r.exc # "none" THEN r.exc
                              ELSE IF r.val THEN "true" ELSE "false"))

\* A variant of pv_validate that makes the output directory before it
\* checks its arguments.
pv_validate_after_makedirs ==
    /\ pc = "pv_validate"
    /\ LET v == validate(pv.source, pv.in_timestamp, pv.out_timestamp,
                         dirs, files)
           output_dir == dirname(format_output_filename(
                                    pv.output, pv.source, dirs, files,
                                    Stamps[clock], Stamps[clock]))
           tr == Append(trace, Ev("makedirs", pv.job, "", 0, 0, output_dir,
                                  "ok"))
       IN /\ dirs' = makedirs(output_dir, dirs)
          /\ IF v.exc # "none"
             THEN /\ pv_end(pvRaise(v.exc, v.msg), tr)
                  /\ pv' = pv
             ELSE /\ pv' = [pv EXCEPT !.in_seconds = v.in_seconds,
                                      !.duration = v.duration]
                  /\ pc' = "pv_resolve"
                  /\ trace' = tr
                  /\ pv_result' = pv_result
    /\ UNCHANGED <<parse_vars, fo_vars, upc, env_vars, files, clock,
                   main_vars, batch_vars>>

\* Lines 60-77
pv_validate ==
    /\ pc = "pv_validate"
    /\ LET v == validate(pv.source, pv.in_timestamp, pv.out_timestamp,
                         dirs, files)
       IN IF v.exc # "none"
          THEN /\ pv_end(pvRaise(v.exc, v.msg), trace)
               /\ pv' = pv
          ELSE /\ pv' = [pv EXCEPT !.in_seconds = v.in_seconds,
                                   !.duration = v.duration]
               /\ pc' = "pv_resolve"
               /\ UNCHANGED <<pv_result, trace>>
    /\ UNCHANGED <<parse_vars, fo_vars, upc, env_vars, fs_vars, main_vars,
                   batch_vars>>

\* Lines 79-85: resolve the output path and make its directory; a failure
\* of os.makedirs here is raised, nothing catches it.
pv_resolve ==
    /\ pc = "pv_resolve"
    /\ \E r \in fo_clock(pv.output, dirs, files, clock) :
         LET output_path == format_output_filename(
                                pv.output, pv.source, dirs, files,
                                Stamps[r[1]], Stamps[r[2]])
             output_dir == dirname(output_path)
         IN /\ pv' = [pv EXCEPT !.output_path = output_path]
            /\ clock' = r[2]
            /\ IF output_dir # <<>> /\ ~exists(output_dir, dirs, files)
               THEN \E res \in makedirs_outcomes(output_dir, files) :
                      LET tr == Append(trace, Ev("makedirs", pv.job, "", 0, 0,
                                                 output_dir, res))
                      IN IF res = "ok"
                         THEN /\ dirs' = makedirs(output_dir, dirs)
                              /\ pc' = "pv_probe"
                              /\ trace' = tr
                              /\ pv_result' = pv_result
                         ELSE /\ dirs' = dirs
                              /\ pv_end(pvRaise("OSError", "makedirs"), tr)
               ELSE /\ pc' = "pv_probe"
                    /\ UNCHANGED <<dirs, trace, pv_result>>
    /\ UNCHANGED <<parse_vars, fo_vars, upc, env_vars, files, main_vars,
                   batch_vars>>

\* The command name process_video runs the external tool by (lines 90, 118).
pv_ffmpeg == "ffmpeg"

\* Lines 87-102: the version probe; without the tool and without the
\* binding the call returns False.
pv_probe ==
    /\ pc = "pv_probe"
    /\ LET res == version_result(pv_ffmpeg)
           ffmpeg_available == (res = "ok")
           tr == Append(trace, Ev("version", pv.job, pv_ffmpeg, 0, 0, <<>>,
                                  res))
       IN /\ pv' = [pv EXCEPT !.ffmpeg_available = ffmpeg_available]
          /\ IF ~ffmpeg_available /\ ~HAVE_FFMPEG_PYTHON
             THEN pv_end(pvReturn(FALSE), tr)
             ELSE /\ pc' = "pv_mkdir"
                  /\ trace' = tr
                  /\ pv_result' = pv_result
    /\ UNCHANGED <<parse_vars, fo_vars, upc, env_vars, fs_vars, main_vars,
                   batch_vars>>

\* Lines 104-112: make the output directory again; here a failure is caught
\* and the call returns False.
pv_mkdir ==
    /\ pc = "pv_mkdir"
    /\ LET output_dir == dirname(pv.output_path)
       IN IF output_dir # <<>> /\ ~exists(output_dir, dirs, files)
          THEN \E res \in makedirs_outcomes(output_dir, files) :
                 LET tr == Append(trace, Ev("makedirs", pv.job, "", 0, 0,
                                            output_dir, res))
                 IN IF res = "ok"
                    THEN /\ dirs' = makedirs(output_dir, dirs)
                         /\ pc' = "pv_extract"
                         /\ trace' = tr
                         /\ pv_result' = pv_result
                    ELSE /\ dirs' = dirs
                         /\ pv_end(pvReturn(FALSE), tr)
          ELSE /\ pc' = "pv_extract"
               /\ UNCHANGED <<dirs, trace, pv_result>>
    /\ UNCHANGED <<parse_vars, fo_vars, upc, env_vars, files, clock,
                   main_vars, batch_vars, pv>>

\* What subprocess.run(cmd, check=True) can do: exit 0, exit nonzero
\* (CalledProcessError, a SubprocessError), or fail to start the process
\* (OSError, which is no SubprocessError).
RunOutcomes == {"ok", "nonzero", "oserror"}

\* The tool exits 0 only when it has written the output file.
run_outcomes(output_path, ds, fs) ==
    IF writable(output_path, ds, fs) THEN RunOutcomes
    ELSE RunOutcomes \ {"ok"}

\* Lines 131-133: the exceptions of the extraction the handler catches.
caught_by_extract(res) == res = "nonzero"

\* Lines 114-133: the extraction by the external tool.
pv_extract ==
    /\ pc = "pv_extract"
    /\ IF pv.ffmpeg_available
       THEN \E res \in run_outcomes(pv.output_path, dirs, files) :
              LET tr == Append(trace, Ev("extract", pv.job, pv_ffmpeg,
                                         pv.in_seconds, pv.duration,
                                         pv.output_path, res))
              IN IF res = "ok"
                 THEN /\ files' = files \cup {written(pv.output_path)}
                      /\ pv_end(pvReturn(TRUE), tr)
                 ELSE IF caught_by_extract(res)
                 THEN /\ pc' = "pv_binding"
                      /\ trace' = tr
                      /\ UNCHANGED <<files, pv_result>>
                 ELSE /\ files' = files
                      /\ pv_end(pvRaise("OSError", "subprocess"), tr)
       ELSE /\ pc' = "pv_binding"
            /\ UNCHANGED <<files, trace, pv_result>>
    /\ UNCHANGED <<parse_vars, fo_vars, upc, env_vars, dirs, clock,
                   main_vars, batch_vars, pv>>

\* What the binding can do: ffmpeg.probe of the source fails, the trim
\* fails, or the trim succeeds and the output file is written.
binding_outcomes(output_path, ds, fs) ==
    IF writable(output_path, ds, fs) THEN {"probe_failed", "failed", "ok"}
    ELSE {"probe_failed", "failed"}

\* Lines 135-172: the extraction by the library binding: ffmpeg.probe of
\* the source, then the same trim; every failure returns False.
pv_binding ==
    /\ pc = "pv_binding"
    /\ IF HAVE_FFMPEG_PYTHON
       THEN \E res \in binding_outcomes(pv.output_path, dirs, files) :
              /\ files' = IF res = "ok"
                          THEN files \cup {written(pv.output_path)}
                          ELSE files
              /\ pv_end(pvReturn(res = "ok"),
                        Append(trace, Ev("binding", pv.job, "", pv.in_seconds,
                                         pv.duration, pv.output_path, res)))
       ELSE /\ files' = files
            /\ pv_end(pvReturn(FALSE), trace)
    /\ UNCHANGED <<parse_vars, fo_vars, upc, env_vars, dirs, clock,
                   main_vars, batch_vars, pv>>

(***************************************************************************)
(* Batch Runner (process_batch, lines 174-230)                             *)
(***************************************************************************)

\* Lines 176-202: read the document and build the job list.
batch_load ==
    /\ pc = "batch_load"
    /\ IF config_file.state # "ok"
       THEN /\ success' = FALSE
            /\ pc' = "main_batch_ret"
            /\ trace' = Append(trace, Note("config_error", 0, <<>>))
            /\ UNCHANGED batch_vars
       ELSE LET job_list == normalize(config_file.data)
            IN IF job_list = <<>>
               THEN /\ success' = FALSE
                    /\ pc' = "main_batch_ret"
                    /\ trace' = Append(trace, Note("no_valid_configs", 0, <<>>))
                    /\ UNCHANGED batch_vars
               ELSE /\ configs' = job_list
                    /\ idx' = 1
                    /\ success_count' = 0
                    /\ pc' = "batch_loop"
                    /\ UNCHANGED <<success, trace>>
    /\ UNCHANGED <<parse_vars, fo_vars, upc, env_vars, fs_vars, ffmpeg_cmd,
                   system_ffmpeg, exit_status, pv, pv_result>>

\* Line 223: what process_batch returns after the loop.
batch_success(count) == count > 0

\* Lines 204-217 and 222-223: one turn of the loop up to the call of
\* process_video, or the return after the last job.  "key in config" raises
\* TypeError for a number, and config['source'] raises TypeError for a
\* string or a list; the handler of line 219 catches both.
batch_loop ==
    /\ pc = "batch_loop"
    /\ IF idx > Len(configs)
       THEN /\ success' = batch_success(success_count)
            /\ pc' = "main_batch_ret"
            /\ UNCHANGED <<idx, trace, pv, pv_result>>
       ELSE LET config == configs[idx]
                visit == Append(trace, Note("visit", idx, <<>>))
            IN IF config.t = "num"
               THEN /\ trace' = Append(visit, Note("caught", idx, <<>>))
                    /\ idx' = idx + 1
                    /\ UNCHANGED <<pc, success, pv, pv_result>>
               ELSE IF ~all_required(config)
               THEN /\ trace' = Append(visit, Note("missing", idx,
                                                   missing_keys(config)))
                    /\ idx' = idx + 1
                    /\ UNCHANGED <<pc, success, pv, pv_result>>
               ELSE IF config.t # "dict"
               THEN /\ trace' = Append(visit, Note("caught", idx, <<>>))
                    /\ idx' = idx + 1
                    /\ UNCHANGED <<pc, success, pv, pv_result>>
               ELSE /\ trace' = Append(visit, Note("call", idx, <<>>))
                    /\ pv' = pv_call(idx, getitem(config, "source").s,
                                     getitem(config, "in").s,
                                     getitem(config, "out").s,
                                     getitem(config, "output").s)
                    /\ pv_result' = NoResult
                    /\ pc' = "pv_validate"
                    /\ UNCHANGED <<idx, success>>
    /\ UNCHANGED <<parse_vars, fo_vars, upc, env_vars, fs_vars, ffmpeg_cmd,
                   system_ffmpeg, exit_status, configs, success_count>>

\* Lines 212-218: the counter after a call that returned r.val.
count_after(count, r) == IF r.exc = "none" /\ r.val THEN count + 1 ELSE count

\* A variant of next_index that leaves the loop when a call raised.
next_index_abort(n, r) == IF r.exc # "none" THEN Len(configs) + 1 ELSE n + 1

\* Lines 204, 219-220: the index after a call, returned or raised.
next_index(n, r) == n + 1

\* Lines 212-220: process_video is back, with a value or an exception.
batch_handle ==
    /\ pc = "pv_done"
    /\ args.config
    /\ success_count' = count_after(success_count, pv_result)
    /\ trace' = IF pv_result.exc = "none" THEN trace
                ELSE Append(trace, Note("caught", idx, <<>>))
    /\ idx' = next_index(idx, pv_result)
    /\ pc' = "batch_loop"
    /\ UNCHANGED <<parse_vars, fo_vars, upc, env_vars, fs_vars, main_vars,
                   configs, pv, pv_result>>

(***************************************************************************)
(* Entry Point (main, lines 232-334)                                       *)
(***************************************************************************)

\* Lines 250-267: pick the command and probe it.
main_probe ==
    /\ pc = "main"
    /\ LET cmd == IF args.ffmpeg_path # "" THEN args.ffmpeg_path ELSE "ffmpeg"
           res == version_result(cmd)
       IN /\ ffmpeg_cmd' = cmd
          /\ system_ffmpeg' = (res = "ok")
          /\ trace' = Append(trace, Ev("version", 0, cmd, 0, 0, <<>>, res))
    /\ pc' = "main_fallback"
    /\ UNCHANGED <<parse_vars, fo_vars, upc, env_vars, fs_vars, success,
                   exit_status, batch_vars, pv, pv_result>>

\* Lines 269-291: without the tool, the binding must pass ffmpeg.probe of a
\* fixed path, else main returns 1.
main_fallback ==
    /\ pc = "main_fallback"
    /\ \E res \in IF system_ffmpeg \/ ~HAVE_FFMPEG_PYTHON
                  THEN {"none"} ELSE {"ok", "failed"} :
         /\ trace' = IF res = "none" THEN trace
                     ELSE Append(trace, Ev("binding_probe", 0, "", 0, 0, <<>>,
                                           res))
         /\ IF system_ffmpeg \/ res = "ok"
            THEN /\ pc' = "main_dispatch"
                 /\ exit_status' = exit_status
            ELSE /\ pc' = "exit"
                 /\ exit_status' = 1
    /\ UNCHANGED <<parse_vars, fo_vars, upc, env_vars, fs_vars, ffmpeg_cmd,
                   system_ffmpeg, success, batch_vars, pv, pv_result>>

\* Lines 294-326: batch mode or single-file mode.  A missing argument is
\* None, modelled as the empty string: "not x" is true of both.
main_dispatch ==
    /\ pc = "main_dispatch"
    /\ IF args.config
       THEN IF config_file.state = "absent"
            THEN /\ pc' = "exit"
                 /\ exit_status' = 1
                 /\ UNCHANGED <<pv, pv_result, trace>>
            ELSE /\ pc' = "batch_load"
                 /\ UNCHANGED <<exit_status, pv, pv_result, trace>>
       ELSE IF args.in_timestamp = <<>> \/ args.out_timestamp = <<>>
               \/ args.output = <<>>
            THEN /\ pc' = "exit"
                 /\ exit_status' = 1
                 /\ UNCHANGED <<pv, pv_result, trace>>
            ELSE /\ pv' = pv_call(1, args.source, args.in_timestamp,
                                  args.out_timestamp, args.output)
                 /\ pv_result' = NoResult
                 /\ trace' = Append(trace, Note("call", 1, <<>>))
                 /\ pc' = "pv_validate"
                 /\ exit_status' = exit_status
    /\ UNCHANGED <<parse_vars, fo_vars, upc, env_vars, fs_vars, ffmpeg_cmd,
                   system_ffmpeg, success, batch_vars>>

\* A variant of exit_code that reports success whatever happened.
exit_code_zero(ok) == 0

\* Lines 305 and 331: return 0 if success else 1
exit_code(ok) == IF ok THEN 0 ELSE 1

\* Lines 300-305: process_batch is back.
main_batch_ret ==
    /\ pc = "main_batch_ret"
    /\ exit_status' = exit_code(success)
    /\ pc' = "exit"
    /\ UNCHANGED <<parse_vars, fo_vars, upc, env_vars, fs_vars, ffmpeg_cmd,
                   system_ffmpeg, success, batch_vars, pv, pv_result, trace>>

\* Lines 320-334: process_video is back, with a value or an exception.
main_single_ret ==
    /\ pc = "pv_done"
    /\ ~args.config
    /\ IF pv_result.exc = "none"
       THEN /\ success' = pv_result.val
            /\ exit_status' = exit_code(pv_result.val)
       ELSE /\ success' = success
            /\ exit_status' = 1
    /\ pc' = "exit"
    /\ UNCHANGED <<parse_vars, fo_vars, upc, env_vars, fs_vars, ffmpeg_cmd,
                   system_ffmpeg, batch_vars, pv, pv_result, trace>>

(***************************************************************************)
(* Inputs                                                                  *)
(***************************************************************************)

\* The longest timestamp string tried.
MaxTsLen == 7

\* The longest output pattern tried, in tokens.
MaxPathLen == 4

\* The most jobs a batch document holds.
MaxJobs == 2

\* Timestamp strings: every six-character string whose n-th character is
\* drawn from the n-th set (hours 00..24, minutes and seconds 00..69, with
\* the limits 23, 59 and 60 among them), and every string of up to MaxTsLen
\* characters over an ASCII digit, a letter, a decimal digit of another
\* script and a digit that is not decimal.
TsColumns ==
    <<{"0", "2"}, {"0", "3", "4"}, {"0", "5", "6"}, {"0", "9"},
      {"0", "5", "6"}, {"0", "9"}>>

TsStrings ==
    {s \in [1..6 -> {"0", "2", "3", "4", "5", "6", "9"}] :
        \A n \in 1..6 : s[n] \in TsColumns[n]}
    \cup UNION {[1..n -> {"0", "a", "U+0665", "U+00B2"}] : n \in 0..MaxTsLen}

\* The timestamps of the whole-program runs.
T10 == <<"0", "0", "0", "0", "1", "0">>
T20 == <<"0", "0", "0", "0", "2", "0">>
T24h == <<"2", "4", "6", "0", "0", "0">>
Tabc == <<"1", "2", "a", "0", "0", "0">>
T15u == <<"0", "0", "0", "0", "1", "U+0665">>
MainTs == {T10, T20, T24h, Tabc, T15u}

\* The source files and output patterns of the whole-program runs.
SRC == <<"clip", ".mp4">>
GONE == <<"gone", ".mp4">>
GONE_UP == <<"gone", "/", ".", ".", "/", "clip", ".mp4">>
OUT_DIR == <<"/", "tmp", "/", "out", "/">>
OUT_NEWDIR == <<"/", "tmp", "/", "new", "/">>
OUT_FILE == <<"/", "tmp", "/", "new2", "/", "r_", "[timestamp]", ".mp4">>
OUT_BARE == <<"r", ".mp4">>
MainOutputs == {OUT_DIR, OUT_NEWDIR, OUT_FILE, OUT_BARE}

\* An output of a batch job in a directory that is not there yet, and the
\* same path as the source of a later job.
OUT_MADE == <<"/", "tmp", "/", "made", "/", "r", ".mp4">>
MADE == OUT_MADE

InitFiles == {SRC}
InitDirs == {<<".">>, <<"/">>, <<"/", "tmp">>, <<"/", "tmp", "/", "out">>}

\* The path --ffmpeg-path names, when given.
CUSTOM == "/opt/ffmpeg/bin/ffmpeg"

\* JSON values of the batch documents.
Str(s) == [t |-> "str", s |-> s, e |-> <<>>]

Num == [t |-> "num", s |-> <<>>, e |-> <<>>]

\* A job object with the fields named in keys, in that order.
Job(source, in_timestamp, out_timestamp, output, keys) ==
    LET field(key) == CASE key = "source" -> Str(source)
                        [] key = "in" -> Str(in_timestamp)
                        [] key = "out" -> Str(out_timestamp)
                        [] key = "output" -> Str(output)
    IN [t |-> "dict", s |-> <<>>,
        e |-> [n \in 1..Len(keys) |-> [k |-> keys[n], v |-> field(keys[n])]]]

\* The strings "source in out output" and "xsourcex", and the list of the
\* four names.
StrAll ==
    Str(KeyChars("source") \o <<" ">> \o KeyChars("in") \o <<" ">>
        \o KeyChars("out") \o <<" ">> \o KeyChars("output"))

StrSome == Str(<<"x">> \o KeyChars("source") \o <<"x">>)

ListAll ==
    [t |-> "list", s |-> <<>>,
     e |-> [n \in 1..Len(REQUIRED) |->
                [k |-> "", v |-> Str(KeyChars(REQUIRED[n]))]]]

JobValues ==
    {Job(SRC, T10, T20, OUT_MADE, REQUIRED),
     Job(MADE, T10, T20, OUT_DIR, REQUIRED),
     Job(SRC, T20, T10, OUT_DIR, REQUIRED),
     Job(SRC, T10, T20, OUT_DIR, <<"source", "in", "output">>),
     Num, StrSome}

\* Values that hold all four names without being job objects.
OddValues == {StrAll, ListAll}

JobNames == <<"job1", "job2", "job3", "job4">>

\* The documents: arrays and maps of up to MaxJobs values of JobValues, of
\* one odd value, and of an odd value and a job; and each value alone as the
\* whole document.
Documents ==
    LET seqs == UNION {[1..n -> JobValues] : n \in 0..MaxJobs}
                \cup {<<v>> : v \in OddValues}
                \cup {<<v, Job(SRC, T10, T20, OUT_MADE, REQUIRED)>> :
                         v \in OddValues}
    IN {[t |-> "list", s |-> <<>>,
         e |-> [n \in 1..Len(q) |-> [k |-> "", v |-> q[n]]]] : q \in seqs}
       \cup {[t |-> "dict", s |-> <<>>,
              e |-> [n \in 1..Len(q) |-> [k |-> JobNames[n], v |-> q[n]]]] :
             q \in seqs}
       \cup JobValues \cup OddValues

NoArgs ==
    [config |-> FALSE, source |-> <<>>, in_timestamp |-> <<>>,
     out_timestamp |-> <<>>, output |-> <<>>, ffmpeg_path |-> ""]

NoFrame == pv_call(0, <<>>, <<>>, <<>>, <<>>)

(***************************************************************************)
(* The whole program: main() from the parsed arguments to its return.      *)
(***************************************************************************)

StandAloneIdle ==
    /\ timestamp = <<>>
    /\ total_seconds = Raise("pending")
    /\ fo_args = [output |-> <<>>, source |-> <<>>]
    /\ fo_result = <<>>
    /\ upc = "idle"

MainIdle ==
    /\ ffmpeg_cmd = "ffmpeg"
    /\ system_ffmpeg = FALSE
    /\ success = FALSE
    /\ exit_status = -1
    /\ configs = <<>>
    /\ idx = 0
    /\ success_count = 0
    /\ pv = NoFrame
    /\ pv_result = NoResult
    /\ trace = <<>>

\* The tool is looked up under two names; a name that --ffmpeg-path does
\* not give is never run.
Environment ==
    /\ HAVE_FFMPEG_PYTHON \in BOOLEAN
    /\ \E a \in {"ok", "nonzero", "oserror"}, b \in {"ok", "oserror"} :
         /\ args.ffmpeg_path = "" => b = "oserror"
         /\ tool = [c \in {"ffmpeg", CUSTOM} |-> IF c = "ffmpeg" THEN a ELSE b]
    /\ files = InitFiles
    /\ dirs = InitDirs
    /\ clock = 1

InitSingle ==
    /\ args \in [config : {FALSE}, source : {SRC, GONE, GONE_UP},
                 in_timestamp : MainTs \cup {<<>>},
                 out_timestamp : MainTs \cup {<<>>},
                 output : MainOutputs \cup {<<>>},
                 ffmpeg_path : {"", CUSTOM}]
    /\ config_file = [state |-> "absent", data |-> Num]

InitBatch ==
    /\ args \in [config : {TRUE}, source : {<<>>}, in_timestamp : {<<>>},
                 out_timestamp : {<<>>}, output : {<<>>},
                 ffmpeg_path : {"", CUSTOM}]
    /\ \/ config_file \in [state : {"absent", "malformed"}, data : {Num}]
       \/ config_file \in [state : {"ok"}, data : Documents]

Init ==
    /\ StandAloneIdle
    /\ MainIdle
    /\ pc = "main"
    /\ InitSingle \/ InitBatch
    /\ Environment

Next ==
    \/ main_probe
    \/ main_fallback
    \/ main_dispatch
    \/ batch_load
    \/ batch_loop
    \/ batch_handle
    \/ pv_validate
    \/ pv_resolve
    \/ pv_probe
    \/ pv_mkdir
    \/ pv_extract
    \/ pv_binding
    \/ main_batch_ret
    \/ main_single_ret

Spec == Init /\ [][Next]_vars

(***************************************************************************)
(* parse_timestamp called alone on every string of TsStrings.              *)
(***************************************************************************)

InitParse ==
    /\ timestamp \in TsStrings
    /\ total_seconds = Raise("pending")
    /\ fo_args = [output |-> <<>>, source |-> <<>>]
    /\ fo_result = <<>>
    /\ upc = "call"
    /\ MainIdle
    /\ pc = "idle"
    /\ args = NoArgs
    /\ config_file = [state |-> "absent", data |-> Num]
    /\ HAVE_FFMPEG_PYTHON = FALSE
    /\ tool = [c \in {"ffmpeg", CUSTOM} |-> "oserror"]
    /\ files = InitFiles
    /\ dirs = InitDirs
    /\ clock = 1

call_parse_timestamp ==
    /\ upc = "call"
    /\ total_seconds' = parse_timestamp(timestamp)
    /\ upc' = "ret"
    /\ UNCHANGED <<timestamp, fo_vars, env_vars, fs_vars, pc, main_vars,
                   batch_vars, pv, pv_result, trace>>

SpecParse == InitParse /\ [][call_parse_timestamp]_vars

(***************************************************************************)
(* format_output_filename called alone on every pattern of up to           *)
(* MaxPathLen tokens.                                                      *)
(***************************************************************************)

PathTokens == {"/", "\\", "[timestamp]", ".", "out", "new", ".mp4"}

OutputPatterns == UNION {[1..n -> PathTokens] : n \in 0..MaxPathLen}

SourcePaths == {SRC, <<"/", "tmp", "/", "clip", ".mp4">>, <<"raw">>}

InitPath ==
    /\ timestamp = <<>>
    /\ total_seconds = Raise("pending")
    /\ fo_args \in [output : OutputPatterns, source : SourcePaths]
    /\ fo_result = <<>>
    /\ upc = "call"
    /\ MainIdle
    /\ pc = "idle"
    /\ args = NoArgs
    /\ config_file = [state |-> "absent", data |-> Num]
    /\ HAVE_FFMPEG_PYTHON = FALSE
    /\ tool = [c \in {"ffmpeg", CUSTOM} |-> "oserror"]
    /\ files = InitFiles
    /\ dirs = {<<".">>, <<"/">>, <<"/", "out">>, <<"out">>}
    /\ clock = 1

call_format_output_filename ==
    /\ upc = "call"
    /\ \E r \in fo_clock(fo_args.output, dirs, files, clock) :
         /\ fo_result' = format_output_filename(
                             fo_args.output, fo_args.source, dirs, files,
                             Stamps[r[1]], Stamps[r[2]])
         /\ clock' = r[2]
    /\ upc' = "ret"
    /\ UNCHANGED <<parse_vars, fo_args, env_vars, files, dirs, pc, main_vars,
                   batch_vars, pv, pv_result, trace>>

SpecPath == InitPath /\ [][call_format_output_filename]_vars

(***************************************************************************)
(* Properties                                                              *)
(***************************************************************************)

\* The reference reading of a timestamp, from the specification's words.
RefDigits == <<"0", "1", "2", "3", "4", "5", "6", "7", "8", "9">>

RefIsDigit(c) == \E n \in 1..10 : RefDigits[n] = c

RefDigit(c) == (CHOOSE n \in 1..10 : RefDigits[n] = c) - 1

RefSixDigits(T) == Len(T) = 6 /\ \A n \in 1..6 : RefIsDigit(T[n])

RefHours(T) == 10 * RefDigit(T[1]) + RefDigit(T[2])

RefMinutes(T) == 10 * RefDigit(T[3]) + RefDigit(T[4])

RefSeconds(T) == 10 * RefDigit(T[5]) + RefDigit(T[6])

RefValid(T) ==
    RefSixDigits(T) /\ RefHours(T) <= 23 /\ RefMinutes(T) <= 59
    /\ RefSeconds(T) <= 59

RefOffset(T) == RefHours(T) * 3600 + RefMinutes(T) * 60 + RefSeconds(T)

\* C1: parse_timestamp returns hours*3600 + minutes*60 + seconds, a number
\* in 0..86399 that no other valid timestamp gives, for every string of six
\* digits 0-9 with hours <= 23, minutes <= 59 and seconds <= 59, and raises
\* ValueError (InvalidTimestamp), returning no value, for every other string.
C1_ParseTimestamp ==
    upc = "ret" =>
        IF RefValid(timestamp)
        THEN /\ total_seconds = Return(RefOffset(timestamp))
             /\ total_seconds.val \in 0..86399
             /\ \A U \in TsStrings :
                    RefValid(U) /\ U # timestamp =>
                        parse_timestamp(U).val # total_seconds.val
        ELSE /\ total_seconds.exc = "ValueError"
             /\ total_seconds.val = -1

\* The errors process_video raises before it does anything.
ValidationMessages ==
    {"Source file not found", "Invalid IN timestamp", "Invalid OUT timestamp",
     "OUT timestamp must be greater than IN timestamp"}

\* A timestamp parses when parse_timestamp returns; RefParsed is the number
\* of seconds it returns.
RefParses(T) == parse_timestamp(T).exc = "none"

RefParsed(T) == parse_timestamp(T).val

\* The first error that applies to the running call, "" when none does.
RefFirstError ==
    IF ~exists(pv.source, dirs, files) THEN "Source file not found"
    ELSE IF ~RefParses(pv.in_timestamp) THEN "Invalid IN timestamp"
    ELSE IF ~RefParses(pv.out_timestamp) THEN "Invalid OUT timestamp"
    ELSE IF RefParsed(pv.out_timestamp) - RefParsed(pv.in_timestamp) <= 0
    THEN "OUT timestamp must be greater than IN timestamp"
    ELSE ""

\* C2: process_video raises the first error that applies, in the order
\* SourceNotFound, InvalidInTimestamp, InvalidOutTimestamp, InvalidRange
\* (out - in <= 0); when none applies it goes on with
\* duration = out_seconds - in_seconds >= 1.
C2_ValidationPrecedence ==
    /\ pc \in {"pv_resolve", "pv_probe", "pv_mkdir", "pv_extract", "pv_binding"}
        => /\ RefFirstError = ""
           /\ pv.duration
                = RefParsed(pv.out_timestamp) - RefParsed(pv.in_timestamp)
           /\ pv.duration >= 1
    /\ pc = "pv_done"
        => /\ RefFirstError # ""
                => /\ pv_result.msg = RefFirstError
                   /\ pv_result.exc = IF RefFirstError = "Source file not found"
                                      THEN "FileNotFoundError" ELSE "ValueError"
           /\ RefFirstError = ""
                => /\ pv_result.msg \notin ValidationMessages
                   /\ pv.duration >= 1

\* C2 witness: a call with equal, valid timestamps has ended with
\* InvalidRange.
C2_Witness ==
    /\ pc = "pv_done"
    /\ pv.source \in files
    /\ RefValid(pv.in_timestamp)
    /\ pv.in_timestamp = pv.out_timestamp
    /\ pv_result.msg = "OUT timestamp must be greater than IN timestamp"

\* C3: when the extraction by the external tool fails (nonzero exit or
\* failure to launch) and the binding is available, the same trim (seek
\* offset, duration, output path) is then tried through the binding;
\* process_video returns true only if one of the two attempts succeeded, and
\* otherwise returns false rather than raising.
C3_FallbackChain ==
    pc = "pv_done" =>
        LET mine(n) == trace[n].job = pv.job
            failed == {n \in 1..Len(trace) :
                         mine(n) /\ trace[n].ev = "extract"
                         /\ trace[n].res # "ok"}
        IN /\ \A n \in failed :
                HAVE_FFMPEG_PYTHON =>
                    \E m \in (n + 1)..Len(trace) :
                        /\ mine(m) /\ trace[m].ev = "binding"
                        /\ trace[m].ss = trace[n].ss
                        /\ trace[m].t = trace[n].t
                        /\ trace[m].out = trace[n].out
           /\ pv_result.val =>
                \E n \in 1..Len(trace) :
                    /\ mine(n) /\ trace[n].ev \in {"extract", "binding"}
                    /\ trace[n].res = "ok"
           /\ failed # {} => pv_result.exc = "none"

\* The events of the batch loop and of the calls, in order.
Visits == LET isVisit(e) == e.ev = "visit" IN SelectSeq(trace, isVisit)

Count(ev, res) ==
    Cardinality({n \in 1..Len(trace) : trace[n].ev = ev /\ trace[n].res = res})

Before(n, ev) == Cardinality({m \in 1..(n - 1) : trace[m].ev = ev})

\* process_batch has read the document and built its job list.
BatchLoaded ==
    /\ args.config
    /\ config_file.state = "ok"
    /\ \/ configs # <<>>
       \/ \E n \in 1..Len(trace) : trace[n].ev = "no_valid_configs"

\* C4: process_batch visits the jobs of the normalized list once each, in
\* order, one at a time (a call has ended before the next job is visited),
\* whatever the earlier jobs did; at the end the counter is the number of
\* calls that returned true and the batch succeeds iff it is at least 1.
C4_BatchVisitsAll ==
    args.config /\ configs # <<>> =>
        /\ Len(Visits) <= Len(configs)
        /\ \A n \in 1..Len(Visits) : Visits[n].job = n
        /\ \A n \in 1..Len(trace) :
              trace[n].ev = "visit" => Before(n, "call") = Before(n, "end")
        /\ pc \in {"main_batch_ret", "exit"} =>
              /\ Len(Visits) = Len(configs)
              /\ success_count = Count("end", "true")
              /\ success = (success_count >= 1)

\* C4 witness: a batch of two jobs is over, the first call raised, the
\* second returned true.
C4_Witness ==
    /\ pc = "exit"
    /\ Len(configs) = 2
    /\ \E n \in 1..Len(trace) :
          trace[n].ev = "end" /\ trace[n].job = 1 /\ trace[n].res = "ValueError"
    /\ \E n \in 1..Len(trace) :
          trace[n].ev = "end" /\ trace[n].job = 2 /\ trace[n].res = "true"
    /\ success_count = 1

\* The required fields a job object lacks, from the specification's words.
RefLacks(v) ==
    {"source", "in", "out", "output"} \ {v.e[n].k : n \in 1..Len(v.e)}

RefLacksSeq(v) ==
    LET lacks(key) == key \in RefLacks(v)
    IN SelectSeq(<<"source", "in", "out", "output">>, lacks)

RefIsJobLackingField(v) == v.t = "dict" /\ RefLacks(v) # {}

BatchOver == BatchLoaded /\ pc = "exit"

\* C5 as stated: in an array and in a map of named jobs alike, a job that
\* lacks a required field is skipped with a message that names the missing
\* fields, process_video is not called for it, and later jobs still run.
C5_SkipLogsMissingAnyShape ==
    BatchOver =>
        LET doc == config_file.data
        IN (doc.t = "list" \/ (doc.t = "dict" /\ RefLacks(doc) # {})) =>
            \A n \in 1..Len(doc.e) :
                RefIsJobLackingField(doc.e[n].v) =>
                    \E m \in 1..Len(trace) :
                        /\ trace[m].ev = "missing"
                        /\ trace[m].keys = RefLacksSeq(doc.e[n].v)

\* C5 as amended: in an array, a job object that lacks a required field is
\* skipped with a message naming its missing fields, process_video is not
\* called for it and every later job is visited; in a map of named jobs such
\* a value is dropped when the document is normalized, no message names
\* its fields, process_video is not called for it and is called for every
\* complete job of the map.
C5_SkipLogsMissingInArray ==
    BatchOver =>
        LET doc == config_file.data
        IN /\ doc.t = "list" =>
                \A n \in 1..Len(doc.e) :
                    RefIsJobLackingField(doc.e[n].v) =>
                        /\ \E m \in 1..Len(trace) :
                              trace[m] = Note("missing", n,
                                              RefLacksSeq(doc.e[n].v))
                        /\ \A m \in 1..Len(trace) :
                              trace[m].job = n => trace[m].ev # "call"
                        /\ \A k \in (n + 1)..Len(doc.e) :
                              \E m \in 1..Len(trace) :
                                  trace[m] = Note("visit", k, <<>>)
           /\ doc.t = "dict" /\ RefLacks(doc) # {} =>
                /\ \A m \in 1..Len(trace) : trace[m].ev # "missing"
                /\ Count("call", "")
                     = Cardinality({n \in 1..Len(doc.e) :
                                       /\ doc.e[n].v.t = "dict"
                                       /\ RefLacks(doc.e[n].v) = {}})

\* C5 witness: an array whose first job lacks "out" and whose second job
\* was processed successfully.
C5_Witness ==
    /\ BatchOver
    /\ config_file.data.t = "list"
    /\ Len(config_file.data.e) = 2
    /\ RefLacks(config_file.data.e[1].v) = {"out"}
    /\ \E m \in 1..Len(trace) : trace[m] = Note("missing", 1, <<"out">>)
    /\ \E m \in 1..Len(trace) :
          trace[m].ev = "end" /\ trace[m].job = 2 /\ trace[m].res = "true"

\* The job list of a document, from the specification's words.
RefJobList(doc) ==
    LET values == [n \in 1..Len(doc.e) |-> doc.e[n].v]
        shaped(v) == v.t = "dict" /\ RefLacks(v) = {}
    IN IF doc.t = "list" THEN values
       ELSE IF doc.t = "dict" /\ RefLacks(doc) = {} THEN <<doc>>
       ELSE IF doc.t = "dict" THEN SelectSeq(values, shaped)
       ELSE <<>>

\* C6: the job list is the array's elements in order, or the single object
\* that has all four fields, or else the Trim-Job-shaped values of the
\* object; when it is empty (as for [] and {}) process_batch returns false
\* with NoValidConfigs and process_video is called for no job.
C6_Normalization ==
    BatchLoaded =>
        IF RefJobList(config_file.data) = <<>>
        THEN /\ configs = <<>>
             /\ success = FALSE
             /\ pc \in {"main_batch_ret", "exit"}
             /\ pc = "exit" => exit_status = 1
             /\ \A n \in 1..Len(trace) : trace[n].ev \notin {"visit", "call"}
        ELSE configs = RefJobList(config_file.data)

\* C6 witness: the document {} has been refused.
C6_Witness ==
    /\ BatchLoaded
    /\ pc = "exit"
    /\ config_file.data = [t |-> "dict", s |-> <<>>, e |-> <<>>]
    /\ exit_status = 1

\* C7: main returns 0 iff the run succeeded: the single process_video call
\* returned true, or in batch mode some call did; every other run that
\* ends returns 1.
C7_ExitStatus ==
    pc = "exit" =>
        /\ exit_status \in {0, 1}
        /\ exit_status = 0
             <=> IF args.config
                 THEN \E n \in 1..Len(trace) :
                          trace[n].ev = "end" /\ trace[n].res = "true"
                 ELSE pv_result.exc = "none" /\ pv_result.val

\* C7 witness: a batch run in which one call failed and another succeeded
\* has returned 0.
C7_Witness ==
    /\ pc = "exit"
    /\ args.config
    /\ exit_status = 0
    /\ \E n \in 1..Len(trace) : trace[n].ev = "end" /\ trace[n].res = "false"

\* C8: the pattern, after the placeholder is replaced, is a directory target
\* when it names an existing directory or ends with a separator (the
\* directory need not exist): the result is the directory joined with
\* stem-timestamp.ext; otherwise the result is the pattern itself.  No
\* "[timestamp]" remains.  The timestamps are readings of the clock, the
\* second no earlier than the first; paths are compared after normalization.
C8_DirectoryTarget ==
    upc = "ret" =>
        \E s1 \in DOMAIN Stamps, s2 \in DOMAIN Stamps :
            LET pattern == replace(fo_args.output, PLACEHOLDER, Stamps[s1])
                target == isdir(normpath(pattern), dirs, files)
                          \/ endswith(pattern, "/")
                          \/ endswith(pattern, "\\")
                se == splitext(basename(fo_args.source))
                file == se[1] \o <<"-", Stamps[s2]>> \o se[2]
            IN /\ s1 <= s2
               /\ target => fo_result = normpath(pathjoin(pattern, file))
               /\ ~target => fo_result = normpath(pattern)
               /\ \A n \in 1..Len(fo_result) : fo_result[n] # PLACEHOLDER

\* C9: with --ffmpeg-path, every launch of the external tool, the probes and
\* the extractions, uses the given path; a run whose tool answers only at
\* that path, without the binding, still extracts with the tool.
C9_FfmpegPathOverride ==
    LET path == IF args.ffmpeg_path # "" THEN args.ffmpeg_path ELSE "ffmpeg"
    IN /\ \A n \in 1..Len(trace) :
              trace[n].ev \in {"version", "extract"} => trace[n].cmd = path
       /\ (/\ pc = "pv_done"
           /\ args.ffmpeg_path = CUSTOM
           /\ tool[CUSTOM] = "ok"
           /\ tool["ffmpeg"] # "ok"
           /\ ~HAVE_FFMPEG_PYTHON
           /\ RefFirstError = ""
           /\ pv_result.exc # "OSError")
            => \E n \in 1..Len(trace) :
                   /\ trace[n].ev = "extract" /\ trace[n].job = pv.job
                   /\ trace[n].cmd = CUSTOM

\* The directories that exist after the successful makedirs of the trace.
RefDirs ==
    InitDirs \cup UNION {makedirs(trace[n].out, {}) :
                            n \in {m \in 1..Len(trace) :
                                      /\ trace[m].ev = "makedirs"
                                      /\ trace[m].res = "ok"}}

\* The files that exist after the successful extractions of the trace.
RefFiles ==
    InitFiles \cup {written(trace[n].out) :
                       n \in {m \in 1..Len(trace) :
                                 /\ trace[m].ev \in {"extract", "binding"}
                                 /\ trace[m].res = "ok"}}

\* C10: a call that ended with SourceNotFound, InvalidInTimestamp,
\* InvalidOutTimestamp or InvalidRange made no directory, launched no
\* process and did not call the binding; the directories and files are
\* those the other calls made and the success counter counts only calls
\* that returned true.
C10_ValidationBeforeEffects ==
    pv_result.msg \in ValidationMessages =>
        /\ \A n \in 1..Len(trace) :
              trace[n].job = pv.job =>
                  trace[n].ev \notin {"makedirs", "version", "extract",
                                      "binding"}
        /\ dirs = RefDirs
        /\ files = RefFiles
        /\ success_count = Count("end", "true")

\* C10 witness: in a batch, a job whose OUT timestamp is not after its IN
\* timestamp has been handled after an earlier job succeeded and wrote its
\* output.
C10_Witness ==
    /\ args.config
    /\ pc = "batch_loop"
    /\ idx = 3
    /\ pv.job = 2
    /\ pv_result.msg = "OUT timestamp must be greater than IN timestamp"
    /\ success_count = 1
    /\ MADE \in files

====
